---- MODULE Spec2Model ----
(***************************************************************************)
(* A model of osmium::Object (include/osmium/osm/object.hpp), of the Dump  *)
(* handler (include/osmium/osm/dump.hpp) and of the conversion loop of     *)
(* examples/osmium_convert.cpp.                                            *)
(*                                                                         *)
(* C++ integers are modelled as two's-complement bit vectors of their true *)
(* width: a function from bit positions 0..w-1 (0 is the least significant *)
(* bit) to {0,1}.  C strings are sequences of one-character strings        *)
(* without the terminating NUL.                                            *)
(***************************************************************************)
EXTENDS Integers, Sequences, FiniteSets, TLC

VARIABLES
  obj,       \* the Object the setters are called on
  call,      \* the last call on obj
  lhs, rhs,  \* the operands of operator<
  less,      \* the last comparison of lhs and rhs
  third,     \* a third Object that lhs and rhs are compared with
  rel,       \* the comparisons made among lhs, rhs and third
  item,      \* an Object as it is stored in a Buffer, with its sub-items
  scan,      \* the scan of tags() over the sub-items of item
  out,       \* what Dump has written for item
  pc,        \* osmium_convert: the statement of main that is next
  source,    \* osmium_convert: the meta data and the buffers the reader yields
  meta,      \* osmium_convert: the Meta that main holds
  buffer,    \* osmium_convert: the Buffer of the loop
  trace      \* osmium_convert: the calls made so far, in order

objectVars == <<obj, call>>

orderVars == <<lhs, rhs, less, third, rel>>

itemVars == <<item, scan, out>>

convertVars == <<pc, source, meta, buffer, trace>>

vars == <<objectVars, orderVars, itemVars, convertVars>>

(* Each specification below exercises one part of the program; the state of *)
(* the other parts is then absent.                                          *)
ObjectIdle == obj = "none" /\ call = "none"

OrderIdle ==
  /\ lhs = "none"
  /\ rhs = "none"
  /\ less = "none"
  /\ third = "none"
  /\ rel = "none"

ItemIdle == item = "none" /\ scan = "none" /\ out = "none"

ConvertIdle ==
  /\ pc = "none"
  /\ source = "none"
  /\ meta = "none"
  /\ buffer = "none"
  /\ trace = "none"

----------------------------------------------------------------------------
(* Bounds of the model. *)

\* Small numeric arguments range over 0..MaxSmall (besides the boundary values).
MaxSmall == 1

----------------------------------------------------------------------------
(* Fixed-width integers. *)

\* Width of object_version_type, user_id_type and int32_t.
VersionBits == 32

\* Width of object_id_type.
IdBits == 64

Pow2(n) == 2 ^ n

\* The w-bit vector of a natural number n < 2^30.
FromNat(n, w) == [i \in 0..(w - 1) |-> IF i < 30 THEN (n \div Pow2(i)) % 2 ELSE 0]

BitAnd(x, y) == [i \in DOMAIN x |-> IF x[i] = 1 /\ y[i] = 1 THEN 1 ELSE 0]

BitOr(x, y) == [i \in DOMAIN x |-> IF x[i] = 1 \/ y[i] = 1 THEN 1 ELSE 0]

BitNot(x) == [i \in DOMAIN x |-> 1 - x[i]]

\* x << n, bits shifted out at the top are lost.
Shl(x, n) == [i \in DOMAIN x |-> IF i >= n THEN x[i - n] ELSE 0]

\* Conversion of an integer to bool: nonzero is true.
ToBool(x) == \E i \in DOMAIN x : x[i] = 1

\* x + 1 modulo 2^w: the bits below the lowest 0 bit flip, and that bit too.
Inc(x) == [i \in DOMAIN x |-> IF \A j \in 0..(i - 1) : x[j] = 1 THEN 1 - x[i] ELSE x[i]]

\* Two's-complement negation modulo 2^w.
Neg(x) == Inc(BitNot(x))

Width(x) == Cardinality(DOMAIN x)

SignBit(x) == x[Width(x) - 1]

\* x < y for unsigned operands of the same width.
UnsignedLess(x, y) ==
  \E i \in DOMAIN x : /\ x[i] = 0
                      /\ y[i] = 1
                      /\ \A j \in DOMAIN x : j > i => x[j] = y[j]

\* x < y for signed operands of the same width.
SignedLess(x, y) ==
  IF SignBit(x) # SignBit(y) THEN SignBit(x) = 1 ELSE UnsignedLess(x, y)

\* The w-bit vector of an integer n with |n| < 2^30.
FromInt(n, w) == IF n >= 0 THEN FromNat(n, w) ELSE Neg(FromNat(0 - n, w))

\* The largest and the smallest value of a signed w-bit integer.
MaxInt(w) == [i \in 0..(w - 1) |-> IF i = w - 1 THEN 0 ELSE 1]

MinInt(w) == [i \in 0..(w - 1) |-> IF i = w - 1 THEN 1 ELSE 0]

AllOnes(w) == [i \in 0..(w - 1) |-> 1]

----------------------------------------------------------------------------
(* C strings. *)

\* strcmp: 0 when both strings hold the same characters, nonzero otherwise
\* (the sign of a nonzero result is never used).
RECURSIVE strcmp(_, _)
strcmp(s, t) ==
  IF s = <<>> /\ t = <<>> THEN 0
  ELSE IF s = <<>> \/ t = <<>> THEN 1
  ELSE IF Head(s) = Head(t) THEN strcmp(Tail(s), Tail(t))
  ELSE 1

\* The characters of a string literal, written out.
Chars_true == <<"t", "r", "u", "e">>

Chars_false == <<"f", "a", "l", "s", "e">>

Chars_id == <<"i", "d">>

Chars_version == <<"v", "e", "r", "s", "i", "o", "n">>

Chars_changeset == <<"c", "h", "a", "n", "g", "e", "s", "e", "t">>

Chars_timestamp == <<"t", "i", "m", "e", "s", "t", "a", "m", "p">>

Chars_uid == <<"u", "i", "d">>

Chars_visible == <<"v", "i", "s", "i", "b", "l", "e">>

----------------------------------------------------------------------------
(* Conversions of attribute texts (osmium/osm/types.hpp and                *)
(* osmium/utils/timestamp.hpp): a decimal number, or a failure on any      *)
(* other text.  A result is [ok |-> TRUE, val |-> v] or [ok |-> FALSE].    *)

DigitVal ==
  [c \in {"0", "1", "2", "3", "4", "5", "6", "7", "8", "9"} |->
     CASE c = "0" -> 0 [] c = "1" -> 1 [] c = "2" -> 2 [] c = "3" -> 3
       [] c = "4" -> 4 [] c = "5" -> 5 [] c = "6" -> 6 [] c = "7" -> 7
       [] c = "8" -> 8 [] c = "9" -> 9]

IsDigits(s) == s # <<>> /\ \A i \in 1..Len(s) : s[i] \in DOMAIN DigitVal

RECURSIVE DecimalValue(_)
DecimalValue(s) ==
  IF s = <<>> THEN 0
  ELSE 10 * DecimalValue(SubSeq(s, 1, Len(s) - 1)) + DigitVal[s[Len(s)]]

ParseFailure == [ok |-> FALSE]

ParseUnsigned(s, w) ==
  IF IsDigits(s) THEN [ok |-> TRUE, val |-> FromNat(DecimalValue(s), w)]
  ELSE ParseFailure

string_to_object_id(s) ==
  IF s # <<>> /\ Head(s) = "-"
  THEN IF IsDigits(Tail(s))
       THEN [ok |-> TRUE, val |-> FromInt(0 - DecimalValue(Tail(s)), IdBits)]
       ELSE ParseFailure
  ELSE ParseUnsigned(s, IdBits)

string_to_object_version(s) == ParseUnsigned(s, VersionBits)

string_to_user_id(s) == ParseUnsigned(s, VersionBits)

string_to_changeset_id(s) ==
  IF IsDigits(s) THEN [ok |-> TRUE, val |-> DecimalValue(s)] ELSE ParseFailure

\* parse_iso: "yyyy-mm-ddThh:mm:ssZ" to seconds since the epoch.  The model
\* knows the first seconds of the epoch written with a one-digit second.
IsoPrefix ==
  <<"1", "9", "7", "0", "-", "0", "1", "-", "0", "1", "T", "0", "0", ":", "0", "0", ":", "0">>

parse_iso(s) ==
  IF /\ Len(s) = Len(IsoPrefix) + 2
     /\ SubSeq(s, 1, Len(IsoPrefix)) = IsoPrefix
     /\ s[Len(s) - 1] \in DOMAIN DigitVal
     /\ s[Len(s)] = "Z"
  THEN [ok |-> TRUE, val |-> DigitVal[s[Len(s) - 1]]]
  ELSE ParseFailure

----------------------------------------------------------------------------
(* osmium::Object: the fixed fields and their accessors. *)

\* The default constructor.
NewObject ==
  [m_id |-> FromNat(0, IdBits),
   m_deleted_and_version |-> FromNat(0, VersionBits),
   m_timestamp |-> 0,
   m_uid |-> FromNat(0, VersionBits),
   m_changeset |-> 0]

deleted_bit == VersionBits - 1

deleted_bit_mask == Shl(FromNat(1, VersionBits), deleted_bit)

id(o) == o.m_id

id_set(o, v) == [o EXCEPT !.m_id = v]

version(o) == BitAnd(o.m_deleted_and_version, BitNot(deleted_bit_mask))

deleted(o) == ToBool(BitAnd(o.m_deleted_and_version, deleted_bit_mask))

visible(o) == ~deleted(o)

\* A faulty variant: the deleted bit is not preserved on write.
version_set_unmasked(o, v) == [o EXCEPT !.m_deleted_and_version = v]

version_set(o, v) ==
  [o EXCEPT !.m_deleted_and_version =
     BitOr(BitAnd(o.m_deleted_and_version, deleted_bit_mask),
           BitAnd(v, BitNot(deleted_bit_mask)))]

deleted_set(o, b) ==
  [o EXCEPT !.m_deleted_and_version =
     BitOr(BitAnd(o.m_deleted_and_version, BitNot(deleted_bit_mask)),
           Shl(FromNat(IF b THEN 1 ELSE 0, VersionBits), deleted_bit))]

\* A faulty variant: the deleted bit is or-ed in without being cleared first.
visible_set_uncleared(o, b) ==
  [o EXCEPT !.m_deleted_and_version =
     BitOr(o.m_deleted_and_version,
           Shl(FromNat(IF b THEN 0 ELSE 1, VersionBits), deleted_bit))]

visible_set(o, b) ==
  [o EXCEPT !.m_deleted_and_version =
     BitOr(BitAnd(o.m_deleted_and_version, BitNot(deleted_bit_mask)),
           Shl(FromNat(IF b THEN 0 ELSE 1, VersionBits), deleted_bit))]

changeset(o) == o.m_changeset

changeset_set(o, v) == [o EXCEPT !.m_changeset = v]

uid(o) == o.m_uid

uid_set(o, v) == [o EXCEPT !.m_uid = v]

\* A faulty variant: a negative uid is stored as it is.
uid_from_signed_unclamped(o, u) == [o EXCEPT !.m_uid = u]

\* m_uid = uid < 0 ? 0 : uid, with uid an int32_t.
uid_from_signed(o, u) ==
  [o EXCEPT !.m_uid = IF SignBit(u) = 1 THEN FromNat(0, VersionBits) ELSE u]

user_is_anonymous(o) == o.m_uid = FromNat(0, VersionBits)

timestamp(o) == o.m_timestamp

timestamp_set(o, v) == [o EXCEPT !.m_timestamp = v]

(* The setters that take a text.  The result is the object after the call  *)
(* and whether the call threw: [obj |-> o, threw |-> b].                   *)

Returned(o) == [obj |-> o, threw |-> FALSE]

Thrown(o) == [obj |-> o, threw |-> TRUE]

\* A setter called with the result of a conversion, which throws on failure.
WithParsed(o, parsed, setter(_, _)) ==
  IF parsed.ok THEN Returned(setter(o, parsed.val)) ELSE Thrown(o)

id_text(o, s) == WithParsed(o, string_to_object_id(s), id_set)

version_text(o, s) == WithParsed(o, string_to_object_version(s), version_set)

changeset_text(o, s) == WithParsed(o, string_to_changeset_id(s), changeset_set)

uid_text(o, s) == WithParsed(o, string_to_user_id(s), uid_set)

timestamp_text(o, s) == WithParsed(o, parse_iso(s), timestamp_set)

\* A faulty variant: a text other than "true" counts as "false".
visible_text_defaulting(o, s) ==
  IF strcmp(Chars_true, s) = 0 THEN Returned(visible_set(o, TRUE))
  ELSE Returned(visible_set(o, FALSE))

visible_text(o, s) ==
  IF strcmp(Chars_true, s) = 0 THEN Returned(visible_set(o, TRUE))
  ELSE IF strcmp(Chars_false, s) = 0 THEN Returned(visible_set(o, FALSE))
  ELSE Thrown(o)

\* A faulty variant: the "uid" branch calls the setter of the id.
set_attribute_wrong_setter(o, attr, value) ==
  IF strcmp(attr, Chars_id) = 0 THEN id_text(o, value)
  ELSE IF strcmp(attr, Chars_version) = 0 THEN version_text(o, value)
  ELSE IF strcmp(attr, Chars_changeset) = 0 THEN changeset_text(o, value)
  ELSE IF strcmp(attr, Chars_timestamp) = 0 THEN timestamp_text(o, value)
  ELSE IF strcmp(attr, Chars_uid) = 0 THEN id_text(o, value)
  ELSE IF strcmp(attr, Chars_visible) = 0 THEN visible_text(o, value)
  ELSE Returned(o)

set_attribute(o, attr, value) ==
  IF strcmp(attr, Chars_id) = 0 THEN id_text(o, value)
  ELSE IF strcmp(attr, Chars_version) = 0 THEN version_text(o, value)
  ELSE IF strcmp(attr, Chars_changeset) = 0 THEN changeset_text(o, value)
  ELSE IF strcmp(attr, Chars_timestamp) = 0 THEN timestamp_text(o, value)
  ELSE IF strcmp(attr, Chars_uid) = 0 THEN uid_text(o, value)
  ELSE IF strcmp(attr, Chars_visible) = 0 THEN visible_text(o, value)
  ELSE Returned(o)

----------------------------------------------------------------------------
(* The arguments the calls are made with. *)

SmallNat == 0..MaxSmall

\* object_version_type arguments: small values and the values around the top bit.
Uint32Args ==
  {FromNat(n, VersionBits) : n \in SmallNat}
    \cup {MaxInt(VersionBits), MinInt(VersionBits), Inc(MinInt(VersionBits)),
          AllOnes(VersionBits)}

\* user_id_type arguments.
UidArgs == {FromNat(n, VersionBits) : n \in SmallNat} \cup {AllOnes(VersionBits)}

\* int32_t arguments.
Int32Args ==
  {FromInt(n, VersionBits) : n \in (0 - MaxSmall)..MaxSmall}
    \cup {MaxInt(VersionBits), MinInt(VersionBits)}

\* object_id_type arguments.
IdArgs == {FromInt(0 - 1, IdBits), FromNat(1, IdBits), MinInt(IdBits)}

\* time_t and changeset_id_type arguments.
TimeArgs == {0, 1}

ChangesetArgs == {0, 1}

VisibleTexts ==
  {Chars_true, Chars_false, <<>>, <<"T", "r", "u", "e">>, <<"F", "A", "L", "S", "E">>,
   <<" ", "t", "r", "u", "e">>, <<"f", "a", "l", "s", "e", " ">>, <<"t", "r", "u">>,
   <<"y", "e", "s">>}

AttrNames ==
  {Chars_id, Chars_version, Chars_changeset, Chars_timestamp, Chars_uid, Chars_visible,
   <<"I", "D">>, <<"u", "i", "d", "s">>}

AttrValues ==
  {<<"0">>, <<"1">>, <<"x">>, Chars_true, Chars_false, IsoPrefix \o <<"1", "Z">>}

----------------------------------------------------------------------------
(* The calls on one Object.  call records the last call: its name, its     *)
(* argument, the Object before it and whether it threw.                    *)

Called(op, arg, threw) == [op |-> op, arg |-> arg, pre |-> obj, threw |-> threw]

ObjectInit ==
  /\ obj = NewObject
  /\ call = [op |-> "Object", arg |-> <<>>, pre |-> NewObject, threw |-> FALSE]

Init == ObjectInit /\ OrderIdle /\ ItemIdle /\ ConvertIdle

CallId ==
  \E v \in IdArgs :
    /\ obj' = id_set(obj, v)
    /\ call' = Called("id", v, FALSE)
    /\ UNCHANGED <<orderVars, itemVars, convertVars>>

CallVersion ==
  \E v \in Uint32Args :
    /\ obj' = version_set(obj, v)
    /\ call' = Called("version", v, FALSE)
    /\ UNCHANGED <<orderVars, itemVars, convertVars>>

CallDeleted ==
  \E b \in BOOLEAN :
    /\ obj' = deleted_set(obj, b)
    /\ call' = Called("deleted", b, FALSE)
    /\ UNCHANGED <<orderVars, itemVars, convertVars>>

CallVisible ==
  \E b \in BOOLEAN :
    /\ obj' = visible_set(obj, b)
    /\ call' = Called("visible", b, FALSE)
    /\ UNCHANGED <<orderVars, itemVars, convertVars>>

CallVisibleText ==
  \E s \in VisibleTexts :
    LET r == visible_text(obj, s)
    IN /\ obj' = r.obj
       /\ call' = Called("visible_text", s, r.threw)
       /\ UNCHANGED <<orderVars, itemVars, convertVars>>

CallChangeset ==
  \E v \in ChangesetArgs :
    /\ obj' = changeset_set(obj, v)
    /\ call' = Called("changeset", v, FALSE)
    /\ UNCHANGED <<orderVars, itemVars, convertVars>>

CallUid ==
  \E v \in UidArgs :
    /\ obj' = uid_set(obj, v)
    /\ call' = Called("uid", v, FALSE)
    /\ UNCHANGED <<orderVars, itemVars, convertVars>>

CallUidFromSigned ==
  \E u \in Int32Args :
    /\ obj' = uid_from_signed(obj, u)
    /\ call' = Called("uid_from_signed", u, FALSE)
    /\ UNCHANGED <<orderVars, itemVars, convertVars>>

CallTimestamp ==
  \E v \in TimeArgs :
    /\ obj' = timestamp_set(obj, v)
    /\ call' = Called("timestamp", v, FALSE)
    /\ UNCHANGED <<orderVars, itemVars, convertVars>>

CallSetAttribute ==
  \E attr \in AttrNames, value \in AttrValues :
    LET r == set_attribute(obj, attr, value)
    IN /\ obj' = r.obj
       /\ call' = Called("set_attribute", <<attr, value>>, r.threw)
       /\ UNCHANGED <<orderVars, itemVars, convertVars>>

Next ==
  \/ CallId
  \/ CallVersion
  \/ CallDeleted
  \/ CallVisible
  \/ CallVisibleText
  \/ CallChangeset
  \/ CallUid
  \/ CallUidFromSigned
  \/ CallTimestamp
  \/ CallSetAttribute

Spec == Init /\ [][Next]_vars

----------------------------------------------------------------------------
(* Properties of the calls on one Object. *)

Zero32 == FromNat(0, VersionBits)

\* v with its top bit cleared.
TopBitCleared(v) == [i \in DOMAIN v |-> IF i = VersionBits - 1 THEN 0 ELSE v[i]]

\* o2 differs from o1 in the fields named in fields at most.
SameExcept(o1, o2, fields) ==
  \A f \in (DOMAIN o1) \ fields : o1[f] = o2[f]

\* C1: version(v) makes version() return v with the top bit cleared (v itself
\* when v < 2^31) and keeps deleted(); deleted(b) and visible(b) keep version().
C1_VersionDeletedIndependent ==
  /\ call.op = "version" =>
       /\ version(obj) = TopBitCleared(call.arg)
       /\ (SignBit(call.arg) = 0 => version(obj) = call.arg)
       /\ deleted(obj) = deleted(call.pre)
  /\ call.op \in {"deleted", "visible"} =>
       /\ version(obj) = version(call.pre)
       /\ deleted(obj) = (IF call.op = "deleted" THEN call.arg ELSE ~call.arg)

\* A version with the top bit set was written into a deleted Object that held
\* another version.
C1_Witness ==
  /\ call.op = "version"
  /\ call.arg = AllOnes(VersionBits)
  /\ deleted(call.pre)
  /\ version(call.pre) = FromNat(1, VersionBits)
  /\ version(obj) = MaxInt(VersionBits)

\* C2: visible(b) leaves the Object as deleted(not b) would have, and the other
\* way round; visible() is the negation of deleted().
C2_VisibleIsNotDeleted ==
  /\ call.op = "visible" => obj = deleted_set(call.pre, ~call.arg)
  /\ call.op = "deleted" => obj = visible_set(call.pre, ~call.arg)
  /\ visible(obj) = (obj.m_deleted_and_version[deleted_bit] = 0)
  /\ visible(obj) = ~deleted(obj)

\* visible(false) was called on a visible Object with a nonzero version.
C2_Witness ==
  /\ call.op = "visible"
  /\ call.arg = FALSE
  /\ visible(call.pre)
  /\ version(call.pre) = MaxInt(VersionBits)
  /\ deleted(obj)

\* C3: visible(text) clears the deleted bit for "true", sets it for "false",
\* and for any other text throws and leaves the Object as it was.
C3_VisibleText ==
  call.op = "visible_text" =>
    /\ SameExcept(call.pre, obj, {"m_deleted_and_version"})
    /\ version(obj) = version(call.pre)
    /\ IF call.arg = Chars_true THEN ~call.threw /\ ~deleted(obj)
       ELSE IF call.arg = Chars_false THEN ~call.threw /\ deleted(obj)
       ELSE call.threw /\ obj = call.pre

\* visible("True") threw on a deleted Object, which stayed deleted.
C3_Witness ==
  /\ call.op = "visible_text"
  /\ call.arg = <<"T", "r", "u", "e">>
  /\ call.threw
  /\ deleted(obj)
  /\ version(obj) = FromNat(1, VersionBits)

RecognizedAttrs ==
  {Chars_id, Chars_version, Chars_changeset, Chars_timestamp, Chars_uid, Chars_visible}

\* C5: set_attribute with an unrecognized name does not throw and changes
\* nothing; with a recognized name it changes that one attribute at most.
C5_SetAttributeFrame ==
  call.op = "set_attribute" =>
    LET attr == call.arg[1]
    IN /\ attr \notin RecognizedAttrs => ~call.threw /\ obj = call.pre
       /\ attr = Chars_id => SameExcept(call.pre, obj, {"m_id"})
       /\ attr = Chars_version =>
            /\ SameExcept(call.pre, obj, {"m_deleted_and_version"})
            /\ deleted(obj) = deleted(call.pre)
       /\ attr = Chars_visible =>
            /\ SameExcept(call.pre, obj, {"m_deleted_and_version"})
            /\ version(obj) = version(call.pre)
       /\ attr = Chars_changeset => SameExcept(call.pre, obj, {"m_changeset"})
       /\ attr = Chars_timestamp => SameExcept(call.pre, obj, {"m_timestamp"})
       /\ attr = Chars_uid => SameExcept(call.pre, obj, {"m_uid"})
       /\ call.threw => obj = call.pre

\* set_attribute("version", "0") changed the version of a deleted Object whose
\* other fields were all set.
C5_Witness ==
  /\ call.op = "set_attribute"
  /\ call.arg = <<Chars_version, <<"0">>>>
  /\ deleted(call.pre)
  /\ version(call.pre) = MaxInt(VersionBits)
  /\ version(obj) = Zero32
  /\ call.pre.m_id = MinInt(IdBits)
  /\ call.pre.m_uid = AllOnes(VersionBits)
  /\ call.pre.m_timestamp = 1
  /\ call.pre.m_changeset = 1

\* C6: uid_from_signed(u) does not throw, leaves uid() = 0 for u < 0 and
\* uid() = u for u >= 0, so that user_is_anonymous() iff u <= 0; nothing else
\* changes.
C6_UidFromSigned ==
  call.op = "uid_from_signed" =>
    LET u == call.arg
        negative == SignedLess(u, Zero32)
    IN /\ ~call.threw
       /\ negative => uid(obj) = Zero32
       /\ ~negative => uid(obj) = u
       /\ user_is_anonymous(obj) = (negative \/ u = Zero32)
       /\ SameExcept(call.pre, obj, {"m_uid"})

\* uid_from_signed(-2^31) on an Object of a known user.
C6_Witness ==
  /\ call.op = "uid_from_signed"
  /\ call.arg = MinInt(VersionBits)
  /\ call.pre.m_uid = AllOnes(VersionBits)
  /\ uid(obj) = Zero32
  /\ deleted(obj)

----------------------------------------------------------------------------
(* operator< on two Objects. *)

\* The ids and the Objects that are compared.
OrderIds ==
  {FromInt(n, IdBits) : n \in (0 - MaxSmall)..MaxSmall}
    \cup {MinInt(IdBits), MaxInt(IdBits)}

OrderObjects ==
  {deleted_set(version_set(id_set(NewObject, i), v), d) :
     i \in OrderIds,
     v \in {FromNat(n, VersionBits) : n \in SmallNat} \cup {MaxInt(VersionBits)},
     d \in BOOLEAN}

\* abs of an object_id_type: the set of results a call can have.  The result
\* for the smallest value is not representable: the behaviour is undefined, and
\* any value may come back.
abs(x) ==
  IF x = MinInt(IdBits) THEN OrderIds
  ELSE {IF SignBit(x) = 1 THEN Neg(x) ELSE x}

\* The results of lhs < rhs.  abs is called only when the first operand of ||
\* is false.
operator_less(l, r) ==
  IF id(l) = id(r) /\ UnsignedLess(version(l), version(r)) THEN {TRUE}
  ELSE {SignedLess(al, ar) : al \in abs(id(l)), ar \in abs(id(r))}

InitOrder ==
  /\ ObjectIdle
  /\ ItemIdle
  /\ ConvertIdle
  /\ lhs \in OrderObjects
  /\ rhs \in OrderObjects
  /\ less = [done |-> FALSE]
  /\ third = "none"
  /\ rel = "none"

Compare ==
  /\ \E b \in operator_less(lhs, rhs) : less' = [done |-> TRUE, val |-> b]
  /\ UNCHANGED <<lhs, rhs, third, rel, objectVars, itemVars, convertVars>>

NextOrder == Compare

SpecOrder == InitOrder /\ [][NextOrder]_vars

\* |x| as an unsigned number of the width of x (2^63 for the smallest id).
Magnitude(x) == IF SignBit(x) = 1 THEN Neg(x) ELSE x

\* C4: lhs < rhs iff the ids are equal and the version of lhs is smaller, or
\* |lhs.id| < |rhs.id|; the deleted bit takes no part.
C4_OrderByAbsIdThenVersion ==
  less.done =>
    less.val = (\/ id(lhs) = id(rhs) /\ UnsignedLess(version(lhs), version(rhs))
                \/ UnsignedLess(Magnitude(id(lhs)), Magnitude(id(rhs))))

----------------------------------------------------------------------------
(* operator< among three Objects, as a sort applies it. *)

\* The Objects that are sorted: they differ in id and version.
SortObjects == {o \in OrderObjects : ~deleted(o)}

\* The operands by number: 1 is lhs, 2 is rhs, 3 is third.
Operands == 1..3

InitSort ==
  /\ ObjectIdle
  /\ ItemIdle
  /\ ConvertIdle
  /\ lhs \in SortObjects
  /\ rhs \in SortObjects
  /\ third \in SortObjects
  /\ less = "none"
  /\ rel = [done |-> FALSE]

\* Every operand is compared with every operand; lt[i][j] is the result of
\* operand i < operand j, each the result of its own call of operator<.
CompareAll ==
  /\ ~rel.done
  /\ \E ll \in operator_less(lhs, lhs), lr \in operator_less(lhs, rhs),
        lt \in operator_less(lhs, third),
        rl \in operator_less(rhs, lhs), rr \in operator_less(rhs, rhs),
        rt \in operator_less(rhs, third),
        tl \in operator_less(third, lhs), tr \in operator_less(third, rhs),
        tt \in operator_less(third, third) :
       rel' = [done |-> TRUE,
               lt |-> <<<<ll, lr, lt>>, <<rl, rr, rt>>, <<tl, tr, tt>>>>]
  /\ UNCHANGED <<lhs, rhs, third, less, objectVars, itemVars, convertVars>>

NextSort == CompareAll

SpecSort == InitSort /\ [][NextSort]_vars

Incomparable(f, i, j) == ~f[i][j] /\ ~f[j][i]

\* C11: operator< is a strict weak ordering: no Object is less than itself,
\* a < b and b < c imply a < c, and being incomparable is transitive.
C11_StrictWeakOrdering ==
  rel.done =>
    \A i, j, k \in Operands :
      /\ ~rel.lt[i][i]
      /\ rel.lt[i][j] /\ rel.lt[j][k] => rel.lt[i][k]
      /\ Incomparable(rel.lt, i, j) /\ Incomparable(rel.lt, j, k)
           => Incomparable(rel.lt, i, k)

----------------------------------------------------------------------------
(* An Object as it is stored: the fixed header, the length word of the     *)
(* user name, the padded user name and the sub-items.  Addresses and sizes *)
(* are in bytes.                                                           *)

\* osmium::memory::align_bytes.
align_bytes == 8

\* sizeof(size_t) and sizeof(osmium::Location).
SizeofSizeT == 8

SizeofLocation == 8

\* The smallest multiple of align_bytes that is >= n.
padded_length(n) == ((n + align_bytes - 1) \div align_bytes) * align_bytes

\* sizeof(Object): a multiple of align_bytes, as the static_assert demands.
SizeofObjectChoices == {4 * align_bytes, 5 * align_bytes}

ObjectTypes == {"node", "way", "relation"}

\* The size of an Item header, which is the smallest size of an Item.
SizeofItem == align_bytes

(* The sub-items.  entries are the tags, node references or members held;  *)
(* a member is full when the member's Object is stored with it.            *)
NestedSubitem ==
  [type |-> "tag_list", size |-> SizeofItem + 12, entries |-> <<[full |-> FALSE]>>]

RECURSIVE PaddedSizes(_)
PaddedSizes(subs) ==
  IF subs = <<>> THEN 0
  ELSE padded_length(Head(subs).size) + PaddedSizes(Tail(subs))

\* What the producer of a Buffer writes for an Object at address start: the
\* length word behind the header (and the Location of a node), the name, and
\* the sub-items one behind the other, each at a padded address.  mem maps an
\* address to what is stored there; stored lists the sub-items in storage
\* order.
StoredObject(start, t, sizeofObject, userLength, subs) ==
  LET header == sizeofObject + (IF t = "node" THEN SizeofLocation ELSE 0)
      first == start + header + SizeofSizeT + padded_length(userLength)
      addr(k) == first + PaddedSizes(SubSeq(subs, 1, k - 1))
  IN [start |-> start,
      type |-> t,
      size |-> (first - start) + PaddedSizes(subs),
      sizeofObject |-> sizeofObject,
      stored |-> subs,
      mem |-> [a \in {start + header} \cup {addr(k) : k \in 1..Len(subs)} |->
                 IF a = start + header THEN [word |-> userLength]
                 ELSE subs[CHOOSE k \in 1..Len(subs) : addr(k) = a]]]

\* The Object of a full member: a node with one TagList.
MemberObject == StoredObject(0, "node", 4 * align_bytes, 1, <<NestedSubitem>>)

Subitems ==
  {[type |-> "tag_list", size |-> SizeofItem, entries |-> <<>>],
   NestedSubitem,
   [type |-> "way_node_list", size |-> SizeofItem + 16, entries |-> <<[full |-> FALSE]>>],
   [type |-> "relation_member_list", size |-> SizeofItem, entries |-> <<>>],
   [type |-> "relation_member_list", size |-> SizeofItem + 24,
    entries |-> <<[full |-> FALSE]>>],
   [type |-> "relation_member_list", size |-> SizeofItem + 24 + MemberObject.size,
    entries |-> <<[full |-> TRUE, object |-> MemberObject]>>]}

\* The sequences of at most n sub-items.
RECURSIVE SubitemLists(_)
SubitemLists(n) ==
  IF n = 0 THEN {<<>>}
  ELSE LET shorter == SubitemLists(n - 1)
       IN shorter \cup {Append(l, x) : l \in {m \in shorter : Len(m) = n - 1}, x \in Subitems}

(* Reads of the stored bytes.  A read at an address where the producer     *)
(* wrote nothing of the kind yields no value.                              *)
NoValue == [garbage |-> TRUE]

ReadSizeT(it, a) ==
  IF a \in DOMAIN it.mem /\ "word" \in DOMAIN it.mem[a] THEN it.mem[a].word ELSE 0 - 1

ReadItem(it, a) ==
  IF a \in DOMAIN it.mem /\ "type" \in DOMAIN it.mem[a] THEN it.mem[a] ELSE NoValue

(* Item and Object: positions. *)

self(it) == it.start

\* Item::padded_size().
padded_size(it) == padded_length(it.size)

sizeof_object(it) ==
  it.sizeofObject + (IF it.type = "node" THEN SizeofLocation ELSE 0)

user_position(it) == self(it) + sizeof_object(it)

user_length(it) == ReadSizeT(it, user_position(it))

\* A faulty variant: the length of the user name is added without its padding.
subitems_position_unpadded(it) ==
  user_position(it) + SizeofSizeT + user_length(it)

subitems_position(it) ==
  user_position(it) + SizeofSizeT + padded_length(user_length(it))

\* A faulty variant: the Location of a node is left out of the header size.
user_without_location(it) == self(it) + it.sizeofObject + SizeofSizeT

user(it) == self(it) + sizeof_object(it) + SizeofSizeT

cbegin(it) == subitems_position(it)

cend(it) == self(it) + padded_size(it)

----------------------------------------------------------------------------
(* Dump: the lines written for an item.  A line is the prefix it is        *)
(* written with (the strings m_prefix is made of) and its first word; the  *)
(* line of a title is the title.                                           *)

Line(prefix, text) == [prefix |-> prefix, line |-> text]

print_title(title, prefix) == <<Line(prefix, title)>>

\* One line for each entry of a list.
RECURSIVE EntryLines(_, _, _)
EntryLines(entries, prefix, text) ==
  IF entries = <<>> THEN <<>>
  ELSE <<Line(prefix, text)>> \o EntryLines(Tail(entries), prefix, text)

RECURSIVE DumpItem(_, _)
RECURSIVE apply_visitor(_, _, _, _)
RECURSIVE MemberLines(_, _)

\* apply_visitor(dump, begin, end): the handler of each item from begin up to
\* end, each found behind the padded size of the one before.
apply_visitor(it, begin, end, prefix) ==
  IF begin = end THEN <<>>
  ELSE LET sub == ReadItem(it, begin)
       IN IF sub = NoValue THEN <<Line(prefix, "(no item)")>>
          ELSE DumpItem(sub, prefix)
                 \o apply_visitor(it, begin + padded_length(sub.size), end, prefix)

print_meta(object, prefix) ==
  <<Line(prefix, "  id="), Line(prefix, "  version="), Line(prefix, "  uid="),
    Line(prefix, "  user="), Line(prefix, "  changeset="), Line(prefix, "  timestamp="),
    Line(prefix, "  visible=")>>
    \o apply_visitor(object, cbegin(object), cend(object), Append(prefix, "  "))

print_location(node, prefix) == <<Line(prefix, "  lon="), Line(prefix, "  lat=")>>

DumpTagList(tags, prefix) ==
  print_title("TAGS", prefix) \o EntryLines(tags.entries, prefix, "  k=")

DumpWayNodeList(wnl, prefix) ==
  print_title("NODES", prefix) \o EntryLines(wnl.entries, prefix, "  ref=")

MemberLines(members, prefix) ==
  IF members = <<>> THEN <<>>
  ELSE LET member == Head(members)
       IN <<Line(prefix, "  type=")>>
            \o (IF member.full THEN DumpItem(member.object, Append(prefix, "  | "))
                ELSE <<>>)
            \o MemberLines(Tail(members), prefix)

DumpRelationMemberList(rml, prefix) ==
  print_title("MEMBERS", prefix) \o MemberLines(rml.entries, prefix)

DumpNode(node, prefix) ==
  print_title("NODE", prefix) \o print_meta(node, prefix) \o print_location(node, prefix)

\* A faulty variant: the title is written behind the meta data and the sub-items.
DumpWay_title_last(way, prefix) == print_meta(way, prefix) \o print_title("WAY", prefix)

DumpWay(way, prefix) == print_title("WAY", prefix) \o print_meta(way, prefix)

DumpRelation(relation, prefix) ==
  print_title("RELATION", prefix) \o print_meta(relation, prefix)

\* The handler that matches the type tag of the item.
DumpItem(x, prefix) ==
  CASE x.type = "tag_list" -> DumpTagList(x, prefix)
    [] x.type = "way_node_list" -> DumpWayNodeList(x, prefix)
    [] x.type = "relation_member_list" -> DumpRelationMemberList(x, prefix)
    [] x.type = "node" -> DumpNode(x, prefix)
    [] x.type = "way" -> DumpWay(x, prefix)
    [] x.type = "relation" -> DumpRelation(x, prefix)

----------------------------------------------------------------------------
(* One stored Object: tags() scans it, or Dump is applied to it. *)

ObjectStarts == {0, 2 * align_bytes}

UserLengths == {0, 1, align_bytes, align_bytes + 1}

\* The largest number of sub-items of the Object.
MaxSubitems == 2

InitItem ==
  /\ ObjectIdle
  /\ OrderIdle
  /\ ConvertIdle
  /\ item \in {StoredObject(a, t, so, ul, subs) :
                 a \in ObjectStarts, t \in ObjectTypes, so \in SizeofObjectChoices,
                 ul \in UserLengths, subs \in SubitemLists(MaxSubitems)}
  /\ scan = [pc |-> "idle"]
  /\ out = <<>>

\* subitem_of_type<TagList>: the iterator is set to begin().
TagsBegin ==
  /\ scan.pc = "idle"
  /\ out = <<>>
  /\ scan' = [pc |-> "loop", it |-> cbegin(item), reads |-> <<>>]
  /\ UNCHANGED <<item, out, objectVars, orderVars, convertVars>>

\* One turn of the loop: the item at the iterator is read; it is returned when
\* it is a TagList, and the iterator moves behind it otherwise.
TagsNext ==
  /\ scan.pc = "loop"
  /\ scan.it # cend(item)
  /\ LET sub == ReadItem(item, scan.it)
         reads == Append(scan.reads, scan.it)
     IN scan' =
          IF sub = NoValue THEN [pc |-> "fault", it |-> scan.it, reads |-> reads]
          ELSE IF sub.type = "tag_list"
          THEN [pc |-> "done", it |-> scan.it, reads |-> reads,
                result |-> [static |-> FALSE, at |-> scan.it, tags |-> sub]]
          ELSE [pc |-> "loop", it |-> scan.it + padded_length(sub.size), reads |-> reads]
  /\ UNCHANGED <<item, out, objectVars, orderVars, convertVars>>

\* The iterator is at end(): the static, empty TagList is returned.
TagsEnd ==
  /\ scan.pc = "loop"
  /\ scan.it = cend(item)
  /\ scan' = [pc |-> "done", it |-> scan.it, reads |-> scan.reads,
              result |-> [static |-> TRUE, tags |-> [type |-> "tag_list", entries |-> <<>>]]]
  /\ UNCHANGED <<item, out, objectVars, orderVars, convertVars>>

\* apply_visitor(dump, item) with a Dump of an empty prefix.
ApplyDump ==
  /\ scan.pc = "idle"
  /\ out = <<>>
  /\ out' = DumpItem(item, <<>>)
  /\ UNCHANGED <<item, scan, objectVars, orderVars, convertVars>>

NextItem ==
  \/ TagsBegin
  \/ TagsNext
  \/ TagsEnd
  \/ ApplyDump

SpecItem == InitItem /\ [][NextItem]_vars

----------------------------------------------------------------------------
(* Properties of the stored Object. *)

\* The addresses at which the producer stored the sub-items, and the k-th of
\* them in storage order.
ItemAddrs(it) == {a \in DOMAIN it.mem : "type" \in DOMAIN it.mem[a]}

StoredAt(it, k) ==
  CHOOSE a \in ItemAddrs(it) : Cardinality({b \in ItemAddrs(it) : b < a}) = k - 1

TagListIndexes(it) == {k \in 1..Len(it.stored) : it.stored[k].type = "tag_list"}

\* C7: tags() reads the sub-items in storage order from the start of the
\* sub-item region, never at or past the padded end of the Object, and returns
\* the first TagList; without one it stops at the end and returns the empty
\* TagList that is no part of the Object.
C7_TagsScan ==
  scan.pc # "idle" =>
    /\ scan.pc # "fault"
    /\ Len(scan.reads) <= Len(item.stored)
    /\ \A k \in 1..Len(scan.reads) :
         /\ scan.reads[k] = StoredAt(item, k)
         /\ scan.reads[k] < item.start + padded_length(item.size)
         /\ \A j \in 1..(k - 1) : item.stored[j].type # "tag_list"
    /\ scan.pc = "done" =>
         IF TagListIndexes(item) # {}
         THEN LET first == CHOOSE k \in TagListIndexes(item) :
                             \A j \in TagListIndexes(item) : k <= j
              IN /\ ~scan.result.static
                 /\ scan.result.at = StoredAt(item, first)
                 /\ scan.result.tags = item.stored[first]
                 /\ Len(scan.reads) = first
         ELSE /\ scan.result.static
              /\ scan.result.tags.entries = <<>>
              /\ Len(scan.reads) = Len(item.stored)
              /\ scan.it = item.start + padded_length(item.size)

\* The scan passed two sub-items, none of them a TagList, and returned the
\* static TagList.
C7_Witness ==
  /\ scan.pc = "done"
  /\ scan.result.static
  /\ Len(scan.reads) = 2
  /\ item.type = "node"

IsTitle(l) == l.line \in {"NODE", "WAY", "RELATION", "TAGS", "NODES", "MEMBERS"}

TitleOf(t) ==
  CASE t = "node" -> "NODE"
    [] t = "way" -> "WAY"
    [] t = "relation" -> "RELATION"
    [] t = "tag_list" -> "TAGS"
    [] t = "way_node_list" -> "NODES"
    [] t = "relation_member_list" -> "MEMBERS"

\* The titles among lines that were written with the prefix, in order.
RECURSIVE TitlesAt(_, _)
TitlesAt(lines, prefix) ==
  IF lines = <<>> THEN <<>>
  ELSE (IF IsTitle(Head(lines)) /\ Head(lines).prefix = prefix
        THEN <<Head(lines).line>> ELSE <<>>)
         \o TitlesAt(Tail(lines), prefix)

Front(q) == SubSeq(q, 1, Len(q) - 1)

\* C8: Dump writes the title of the Object first and then visits each of its
\* sub-items once, in storage order; nothing nested is visited before the
\* title of what holds it.
C8_DumpVisitsInStoredOrder ==
  out # <<>> =>
    /\ out[1] = Line(<<>>, TitleOf(item.type))
    /\ TitlesAt(out, <<>>) = <<TitleOf(item.type)>>
    /\ TitlesAt(out, <<"  ">>) = [k \in 1..Len(item.stored) |-> TitleOf(item.stored[k].type)]
    /\ \A i \in 1..Len(out) :
         IsTitle(out[i]) /\ out[i].prefix # <<>> =>
           \E j \in 1..(i - 1) : IsTitle(out[j]) /\ out[j].prefix = Front(out[i].prefix)
    /\ \A i \in 1..Len(out) : out[i].line # "(no item)"
    /\ (item.type = "way"
          /\ [k \in 1..Len(item.stored) |-> item.stored[k].type]
               = <<"tag_list", "way_node_list">>) =>
         TitlesAt(out, <<>>) \o TitlesAt(out, <<"  ">>) = <<"WAY", "TAGS", "NODES">>

\* A way that stores one TagList and then one WayNodeList has been dumped.
C8_Witness ==
  /\ out # <<>>
  /\ item.type = "way"
  /\ Len(item.stored) = 2
  /\ item.stored[1].type = "tag_list"
  /\ item.stored[2].type = "way_node_list"
  /\ Len(out) > 8

\* C10: the length word of the user name is at the header size H (sizeof(Object),
\* plus the Location of a node), the name behind the word, the sub-items behind
\* the padded name and up to the padded size; so the sub-items start at the
\* name plus its padded length, at a multiple of the alignment if the Object
\* starts at one.
C10_OffsetsFromHeaderSize ==
  LET H == item.sizeofObject + (IF item.type = "node" THEN SizeofLocation ELSE 0)
      length == item.mem[item.start + H].word
  IN /\ user_position(item) = item.start + H
     /\ user_length(item) = length
     /\ user(item) = item.start + H + SizeofSizeT
     /\ cbegin(item) = item.start + H + SizeofSizeT + padded_length(length)
     /\ cbegin(item) = user(item) + padded_length(length)
     /\ cend(item) = item.start + padded_length(item.size)
     /\ cbegin(item) <= cend(item)
     /\ item.start % align_bytes = 0 => cbegin(item) % align_bytes = 0

\* The scan of a node whose name needs padding has read its first sub-item.
C10_Witness ==
  /\ item.type = "node"
  /\ user_length(item) = align_bytes + 1
  /\ item.start # 0
  /\ scan.pc = "loop"
  /\ Len(scan.reads) = 1
  /\ scan.reads[1] = user(item) + 2 * align_bytes


(***************************************************************************)
(* osmium_convert: main, from the construction of the Writer to the end.   *)
(* Reader, Writer and Buffer are declared in headers that are not part of  *)
(* the sources at hand; they are modelled by what the documentation says   *)
(* of them: a reader reports the meta data of its stream when it is        *)
(* opened and then yields Buffers, an empty Buffer meaning there is        *)
(* nothing more; a writer call returns when the writer is done with the    *)
(* Buffer; a Buffer does not own its storage.  The storage of the n-th     *)
(* Buffer of the stream is identified by n, and 0 is the null pointer.     *)
(***************************************************************************)

MaxBuffers == 3

Metas == {"meta_a", "meta_b"}

Blocks == {"data", "empty"}

BlockSeqs == UNION {[1..n -> Blocks] : n \in 0..MaxBuffers}

Sources == [meta : Metas, blocks : BlockSeqs, read : {0}]

NoBuffer == [data |-> 0]

\* Reader::open(): the meta data of the stream.
ReaderOpen(src) == src.meta

\* Reader::read(): the next Buffer of the stream, an empty one at its end.
ReaderRead(src) ==
  IF src.read < Len(src.blocks) /\ src.blocks[src.read + 1] = "data"
    THEN [data |-> src.read + 1]
    ELSE NoBuffer

ReaderAdvance(src) ==
  IF src.read < Len(src.blocks)
    THEN [src EXCEPT !.read = src.read + 1]
    ELSE src

\* Buffer::operator bool(): a Buffer with storage.
BufferBool(b) == b.data # 0

Event(name, arg) == [call |-> name, arg |-> arg]

InitConvert ==
  /\ ObjectIdle
  /\ OrderIdle
  /\ ItemIdle
  /\ pc = "writer"
  /\ source \in Sources
  /\ meta = "unset"
  /\ buffer = NoBuffer
  /\ trace = <<>>

\* osmium::io::Writer writer(outfile); writer.set_generator("osmium_convert");
ConstructWriter ==
  /\ pc = "writer"
  /\ trace' = Append(trace, Event("writer.set_generator", "osmium_convert"))
  /\ pc' = "reader"
  /\ UNCHANGED <<source, meta, buffer, objectVars, orderVars, itemVars>>

\* osmium::io::Reader reader(infile); osmium::io::Meta meta = reader.open();
OpenReader ==
  /\ pc = "reader"
  /\ meta' = ReaderOpen(source)
  /\ trace' = Append(trace, Event("reader.open", meta'))
  /\ pc' = "open"
  /\ UNCHANGED <<source, buffer, objectVars, orderVars, itemVars>>

\* writer.open(meta);
OpenWriter ==
  /\ pc = "open"
  /\ trace' = Append(trace, Event("writer.open", meta))
  /\ pc' = "while"
  /\ UNCHANGED <<source, meta, buffer, objectVars, orderVars, itemVars>>

\* while (osmium::memory::Buffer buffer = reader.read())
While ==
  /\ pc = "while"
  /\ buffer' = ReaderRead(source)
  /\ source' = ReaderAdvance(source)
  /\ trace' = Append(trace, Event("reader.read", buffer'.data))
  /\ pc' = IF BufferBool(buffer') THEN "write" ELSE "close"
  /\ UNCHANGED <<meta, objectVars, orderVars, itemVars>>

\* writer(buffer);
Write ==
  /\ pc = "write"
  /\ trace' = Append(trace, Event("writer", buffer.data))
  /\ pc' = "delete"
  /\ UNCHANGED <<source, meta, buffer, objectVars, orderVars, itemVars>>

\* A loop body that forgets the storage of the Buffer.
Delete_forgotten ==
  /\ pc = "delete"
  /\ buffer' = NoBuffer
  /\ pc' = "while"
  /\ UNCHANGED <<source, meta, trace, objectVars, orderVars, itemVars>>

\* delete[] buffer.data(); and the end of the loop body, where buffer ends.
Delete ==
  /\ pc = "delete"
  /\ trace' = Append(trace, Event("delete[]", buffer.data))
  /\ buffer' = NoBuffer
  /\ pc' = "while"
  /\ UNCHANGED <<source, meta, objectVars, orderVars, itemVars>>

\* writer.close();
Close ==
  /\ pc = "close"
  /\ trace' = Append(trace, Event("writer.close", "none"))
  /\ pc' = "shutdown"
  /\ UNCHANGED <<source, meta, buffer, objectVars, orderVars, itemVars>>

\* google::protobuf::ShutdownProtobufLibrary(); and the return of main.
Shutdown ==
  /\ pc = "shutdown"
  /\ trace' = Append(trace, Event("ShutdownProtobufLibrary", "none"))
  /\ pc' = "done"
  /\ UNCHANGED <<source, meta, buffer, objectVars, orderVars, itemVars>>

NextConvert ==
  \/ ConstructWriter
  \/ OpenReader
  \/ OpenWriter
  \/ While
  \/ Write
  \/ Delete
  \/ Close
  \/ Shutdown

SpecConvert == InitConvert /\ [][NextConvert]_vars

(***************************************************************************)
(* Properties of the convert pipeline.                                     *)
(***************************************************************************)

CallsOf(name) == {i \in 1..Len(trace) : trace[i].call = name}

RECURSIVE ArgsFrom(_, _)
ArgsFrom(name, i) ==
  IF i > Len(trace) THEN <<>>
  ELSE IF trace[i].call = name THEN <<trace[i].arg>> \o ArgsFrom(name, i + 1)
  ELSE ArgsFrom(name, i + 1)

ArgsOf(name) == ArgsFrom(name, 1)

IsPrefix(s, t) == Len(s) <= Len(t) /\ \A i \in 1..Len(s) : s[i] = t[i]

\* The storage of the Buffers of the stream that come before its first
\* empty Buffer.
RECURSIVE LeadingData(_, _)
LeadingData(blocks, i) ==
  IF i > Len(blocks) \/ blocks[i] = "empty" THEN <<>>
  ELSE <<i>> \o LeadingData(blocks, i + 1)

LoopLeft == pc \in {"close", "shutdown", "done"}

\* C9: the meta data is obtained from the reader once and handed to
\* writer.open before any Buffer is written; every non-empty Buffer that
\* reader.read() returns is handed to the writer exactly once, in the order
\* read, and its storage is released exactly once, after the writer call for
\* it; the loop stops at the first empty Buffer; writer.close() happens once,
\* after the last Buffer was written, and nothing is written or released
\* after it.
C9_ConvertPipeline ==
  LET reads == ArgsOf("reader.read")
      writes == ArgsOf("writer")
      deletes == ArgsOf("delete[]")
      expected == LeadingData(source.blocks, 1)
  IN /\ Cardinality(CallsOf("reader.open")) <= 1
     /\ Cardinality(CallsOf("writer.open")) <= 1
     /\ Cardinality(CallsOf("writer.close")) <= 1
     /\ \A i \in CallsOf("writer.open") :
          /\ trace[i].arg = source.meta
          /\ \E j \in CallsOf("reader.open") : j < i /\ trace[j].arg = trace[i].arg
     /\ \A i \in CallsOf("writer") : \E j \in CallsOf("writer.open") : j < i
     /\ \A i \in 1..Len(reads) : i < Len(reads) => reads[i] # 0
     /\ IsPrefix(SelectSeq(reads, LAMBDA d : d # 0), expected)
     /\ IsPrefix(writes, SelectSeq(reads, LAMBDA d : d # 0))
     /\ IsPrefix(deletes, writes)
     /\ \A i \in CallsOf("delete[]") :
          \E j \in CallsOf("writer") : j < i /\ trace[j].arg = trace[i].arg
     /\ \A i \in CallsOf("writer.close") : \A j \in 1..Len(trace) :
          trace[j].call \in {"writer", "delete[]", "reader.read"} => j < i
     /\ pc = "while" /\ trace[Len(trace)].call # "writer.open" => deletes = reads
     /\ LoopLeft =>
          /\ reads = expected \o <<0>>
          /\ writes = expected
          /\ deletes = expected
     /\ pc \in {"shutdown", "done"} =>
          /\ Cardinality(CallsOf("reader.open")) = 1
          /\ Cardinality(CallsOf("writer.open")) = 1
          /\ Cardinality(CallsOf("writer.close")) = 1

\* A run that wrote and released a Buffer, stopped at an empty Buffer that
\* is not the last of the stream, and closed the writer.
C9_Witness ==
  /\ pc = "done"
  /\ Len(ArgsOf("writer")) >= 1
  /\ source.read < Len(source.blocks)

====
